---- MODULE Spec2Model ----
(***************************************************************************)
(* Model of plugin/pki/util.go of vault-pki-backend-venafi: the DNS and IP *)
(* SAN comparison helpers, the trust-bundle loader, the HTTP client        *)
(* builder and the access-token refresh (updateAccessToken and             *)
(* storeAccessData), together with the issuance/signing request that       *)
(* drives a refresh.                                                       *)
(*                                                                         *)
(* Go strings are sequences of byte values, so that sort.Strings and ==    *)
(* are computed on the bytes as Go computes them.                          *)
(***************************************************************************)
EXTENDS Integers, Sequences, FiniteSets, TLC

VARIABLES
    \* areDNSNamesCorrect: the three argument slices and the returned value
    actualAltNames, expectedCNNames, expectedAltNames, dnsRet,
    \* SameIpSlice: the two arguments as passed, the contents of the two slices,
    \* and the returned value
    ipArgX, ipArgY, ipX, ipY, ipRet,
    \* http.DefaultTransport's TLSClientConfig: nil, or the shared tls.Config
    defaultTLS,
    \* its value when the process started
    defaultAtStart,
    \* parseTrustBundlePEM: the argument and result of the last call
    parseArg, parseRet,
    \* getHTTPClient: the argument and outcome of the last call, the clients
    \* returned so far, and the number of calls made
    httpArg, httpRet, clients, httpCalls,
    \* the credential store: secret name -> stored venafiEntry
    secrets,
    \* the requests in flight: slot -> the locals of the request in it
    call,
    \* the number of calls started
    nRequests,
    \* per secret, the request whose Put was the last to be written (0: none)
    lastPut,
    \* the role store: role name -> pointer to the stored role entry (Nil when
    \* no role of that name is stored)
    roles,
    \* the number of writes of a role at "roles/<name>"
    nRoleWrites

dnsVars == <<actualAltNames, expectedCNNames, expectedAltNames, dnsRet>>
ipVars == <<ipArgX, ipArgY, ipX, ipY, ipRet>>
httpVars == <<defaultTLS, defaultAtStart, parseArg, parseRet, httpArg, httpRet,
              clients, httpCalls>>
tokVars == <<secrets, call, nRequests, lastPut, roles, nRoleWrites>>
vars == <<dnsVars, ipVars, httpVars, tokVars>>

\* A Go pointer (or an error-free optional value): nil, or the value pointed to.
Nil == <<>>
Ptr(v) == <<v>>

\* A nil error.
NoError == "nil"

\* A result variable holds <<>> before the function has returned and <<v>> after
\* it returned v.
NotCalled == <<>>
Returned(v) == <<v>>

Range(s) == {s[i] : i \in 1..Len(s)}

\* All sequences over S of length at most n.
SeqsUpTo(S, n) == UNION {[1..k -> S] : k \in 0..n}

(***************************************************************************)
(* Strings and sort.Strings                                                *)
(***************************************************************************)

\* Go's < on strings: lexicographic on bytes.
RECURSIVE StrLess(_, _)
StrLess(a, b) ==
    IF Len(a) = 0 THEN Len(b) > 0
    ELSE IF Len(b) = 0 THEN FALSE
    ELSE IF a[1] < b[1] THEN TRUE
    ELSE IF a[1] > b[1] THEN FALSE
    ELSE StrLess(Tail(a), Tail(b))

RECURSIVE InsertSorted(_, _)
InsertSorted(x, s) ==
    IF s = <<>> THEN <<x>>
    ELSE IF StrLess(Head(s), x) THEN <<Head(s)>> \o InsertSorted(x, Tail(s))
    ELSE <<x>> \o s

\* sort.Strings: the slice in increasing order.
RECURSIVE SortStrings(_)
SortStrings(s) ==
    IF s = <<>> THEN <<>> ELSE InsertSorted(Head(s), SortStrings(Tail(s)))

\* SameStringSlice(x, y): sorted copies compared element by element.
SameStringSlice(x, y) ==
    IF Len(x) # Len(y) THEN FALSE
    ELSE LET x1 == SortStrings(x)
             y1 == SortStrings(y)
         IN  \A i \in 1..Len(x1) : x1[i] = y1[i]

(***************************************************************************)
(* areDNSNamesCorrect                                                      *)
(***************************************************************************)

\* The inner loops: some element of the slice equals the name.
FoundIn(slice, name) == \E j \in 1..Len(slice) : slice[j] = name

areDNSNamesCorrect(actual, cnNames, altNames) ==
    IF Len(cnNames) = 0
    THEN IF Len(actual) # Len(altNames) THEN FALSE
         ELSE IF ~SameStringSlice(actual, altNames) THEN FALSE
         ELSE TRUE
    ELSE IF Len(actual) < Len(altNames) THEN FALSE
         ELSE IF \E i \in 1..Len(altNames) : ~FoundIn(actual, altNames[i]) THEN FALSE
         ELSE LET allNames == altNames \o cnNames
              IN  IF \E i \in 1..Len(actual) : ~FoundIn(allNames, actual[i]) THEN FALSE
                  ELSE TRUE

\* Bounds of the DNS check's inputs.
MaxNames == 2
MaxCN == 1

\* "a", "A", "b", "ab": two names differing only in case, and one a prefix of another.
DNSNameSet == {<<97>>, <<65>>, <<98>>, <<97, 98>>}

InitDNS ==
    /\ actualAltNames \in SeqsUpTo(DNSNameSet, MaxNames)
    /\ expectedCNNames \in SeqsUpTo(DNSNameSet, MaxCN)
    /\ expectedAltNames \in SeqsUpTo(DNSNameSet, MaxNames)
    /\ dnsRet = NotCalled
    /\ ipArgX = <<>> /\ ipArgY = <<>> /\ ipX = <<>> /\ ipY = <<>> /\ ipRet = NotCalled
    /\ defaultTLS = <<>> /\ defaultAtStart = <<>> /\ parseArg = <<>>
    /\ parseRet = <<>> /\ httpArg = <<>> /\ httpRet = <<>> /\ clients = {}
    /\ httpCalls = 0
    /\ secrets = <<>> /\ call = <<>> /\ nRequests = 0
    /\ lastPut = <<>>
    /\ roles = <<>> /\ nRoleWrites = 0

CallAreDNSNamesCorrect ==
    /\ dnsRet = NotCalled
    /\ dnsRet' = Returned(areDNSNamesCorrect(actualAltNames, expectedCNNames,
                                            expectedAltNames))
    /\ UNCHANGED <<actualAltNames, expectedCNNames, expectedAltNames>>
    /\ UNCHANGED <<ipVars, httpVars, tokVars>>

NextDNS == CallAreDNSNamesCorrect

SpecDNS == InitDNS /\ [][NextDNS]_vars

(***************************************************************************)
(* net.IP and SameIpSlice                                                  *)
(*                                                                         *)
(* A net.IP is its byte slice: 4 bytes, 16 bytes, or empty (the nil that   *)
(* net.ParseIP returns for text that is no address).                       *)
(***************************************************************************)

\* The 16-byte form of an IPv4 address: ::ffff:a.b.c.d
V4InV6(ip4) == <<0, 0, 0, 0, 0, 0, 0, 0, 0, 0, 255, 255>> \o ip4

\* net.IP.To4: the 4-byte form of an IPv4 address, nil (<<>>) for anything else.
To4(ip) ==
    IF Len(ip) = 4 THEN ip
    ELSE IF /\ Len(ip) = 16
            /\ \A i \in 1..10 : ip[i] = 0
            /\ ip[11] = 255
            /\ ip[12] = 255
         THEN SubSeq(ip, 13, 16)
         ELSE <<>>

\* net.IP.To16: the 16-byte form, nil (<<>>) when the length is neither 4 nor 16.
To16(ip) ==
    IF Len(ip) = 4 THEN V4InV6(ip)
    ELSE IF Len(ip) = 16 THEN ip
    ELSE <<>>

\* Decimal digits of n, as bytes.
RECURSIVE Uitoa(_)
Uitoa(n) == IF n < 10 THEN <<48 + n>> ELSE Uitoa(n \div 10) \o <<48 + (n % 10)>>

HexDigit(d) == IF d < 10 THEN 48 + d ELSE 87 + d

\* Lower-case hexadecimal digits of v without leading zeros.
RECURSIVE AppendHex(_)
AppendHex(v) ==
    IF v < 16 THEN <<HexDigit(v)>> ELSE AppendHex(v \div 16) \o <<HexDigit(v % 16)>>

\* The k-th 16-bit group (k in 1..8) of a 16-byte address.
Group(p, k) == p[2 * k - 1] * 256 + p[2 * k]

\* The number of consecutive zero groups from group k on.
RECURSIVE ZeroRun(_, _)
ZeroRun(p, k) ==
    IF k > 8 THEN 0
    ELSE IF Group(p, k) = 0 THEN 1 + ZeroRun(p, k + 1)
    ELSE 0

\* The first longest run of zero groups, if it has at least two groups: its first
\* group and the group after its last (0 and 0 when there is none).
LongestZeroRun(p) ==
    LET best == CHOOSE k \in 1..8 :
                    /\ \A j \in 1..8 : ZeroRun(p, j) <= ZeroRun(p, k)
                    /\ \A j \in 1..(k - 1) : ZeroRun(p, j) < ZeroRun(p, k)
    IN  IF ZeroRun(p, best) >= 2
        THEN [e0 |-> best, e1 |-> best + ZeroRun(p, best)]
        ELSE [e0 |-> 0, e1 |-> 0]

\* The groups from group k on, with "::" in place of the run of zeros.
RECURSIVE FormatGroups(_, _, _)
FormatGroups(p, k, run) ==
    IF k > 8 THEN <<>>
    ELSE IF k = run.e0
         THEN <<58, 58>> \o
              (IF run.e1 > 8 THEN <<>>
               ELSE AppendHex(Group(p, run.e1)) \o FormatGroups(p, run.e1 + 1, run))
         ELSE (IF k > 1 THEN <<58>> ELSE <<>>) \o
              AppendHex(Group(p, k)) \o FormatGroups(p, k + 1, run)

\* "?" and the hexadecimal bytes: the form of a slice that is no address.
RECURSIVE HexString(_)
HexString(b) ==
    IF b = <<>> THEN <<>>
    ELSE <<HexDigit(Head(b) \div 16), HexDigit(Head(b) % 16)>> \o HexString(Tail(b))

\* net.IP.String: "<nil>", dotted decimal for an IPv4 address in either form, and
\* the compressed hexadecimal form for any other 16-byte address.
IPString(ip) ==
    IF Len(ip) = 0 THEN <<60, 110, 105, 108, 62>>
    ELSE LET p4 == To4(ip)
         IN  IF Len(p4) = 4
             THEN Uitoa(p4[1]) \o <<46>> \o Uitoa(p4[2]) \o <<46>> \o
                  Uitoa(p4[3]) \o <<46>> \o Uitoa(p4[4])
             ELSE IF Len(ip) # 16 THEN <<63>> \o HexString(ip)
             ELSE FormatGroups(ip, 1, LongestZeroRun(ip))

\* A mutant of SameIpSlice: the two string slices are compared without sorting.
SameIpSliceUnsorted(x, y) ==
    IF Len(x) # Len(y) THEN [ret |-> FALSE, x |-> x, y |-> y]
    ELSE LET x1 == [i \in 1..Len(x) |-> IPString(x[i])]
             y1 == [i \in 1..Len(y) |-> IPString(y[i])]
         IN  [ret |-> \A i \in 1..Len(x1) : x1[i] = y1[i], x |-> x, y |-> y]

\* SameIpSlice(x, y): the returned value, and the contents of the two argument
\* slices when it returns (the strings are sorted in x1 and y1, fresh slices).
SameIpSlice(x, y) ==
    IF Len(x) # Len(y) THEN [ret |-> FALSE, x |-> x, y |-> y]
    ELSE LET x1 == SortStrings([i \in 1..Len(x) |-> IPString(x[i])])
             y1 == SortStrings([i \in 1..Len(y) |-> IPString(y[i])])
         IN  [ret |-> \A i \in 1..Len(x1) : x1[i] = y1[i], x |-> x, y |-> y]

\* Bound of the IP check's inputs.
MaxIPs == 2

\* nil, 127.0.0.1 as 4 and as 16 bytes, 10.0.0.5 as 4 bytes, and ::1.
IPSet == {<<>>, <<127, 0, 0, 1>>, V4InV6(<<127, 0, 0, 1>>), <<10, 0, 0, 5>>,
          <<0, 0, 0, 0, 0, 0, 0, 0, 0, 0, 0, 0, 0, 0, 0, 1>>}

InitIP ==
    /\ ipArgX \in SeqsUpTo(IPSet, MaxIPs)
    /\ ipArgY \in SeqsUpTo(IPSet, MaxIPs)
    /\ ipX = ipArgX
    /\ ipY = ipArgY
    /\ ipRet = NotCalled
    /\ actualAltNames = <<>> /\ expectedCNNames = <<>> /\ expectedAltNames = <<>>
    /\ dnsRet = NotCalled
    /\ defaultTLS = <<>> /\ defaultAtStart = <<>> /\ parseArg = <<>>
    /\ parseRet = <<>> /\ httpArg = <<>> /\ httpRet = <<>> /\ clients = {}
    /\ httpCalls = 0
    /\ secrets = <<>> /\ call = <<>> /\ nRequests = 0
    /\ lastPut = <<>>
    /\ roles = <<>> /\ nRoleWrites = 0

CallSameIpSlice ==
    /\ ipRet = NotCalled
    /\ LET r == SameIpSlice(ipX, ipY)
       IN  /\ ipRet' = Returned(r.ret)
           /\ ipX' = r.x
           /\ ipY' = r.y
    /\ UNCHANGED <<ipArgX, ipArgY>>
    /\ UNCHANGED <<dnsVars, httpVars, tokVars>>

NextIP == CallSameIpSlice

SpecIP == InitIP /\ [][NextIP]_vars

(***************************************************************************)
(* parseTrustBundlePEM and getHTTPClient                                   *)
(*                                                                         *)
(* A PEM text is the sequence of what pem.Decode finds in it; the empty    *)
(* string is the empty sequence.                                           *)
(***************************************************************************)

\* CERTIFICATE blocks that x509.ParseCertificate accepts.
ParseableCerts == {"CERT_A", "CERT_B"}

\* A CERTIFICATE block that does not parse, a block of another type, and text
\* that is no PEM block.
PemItems == ParseableCerts \cup {"CERT_BAD_DER", "PRIVATE_KEY", "TEXT"}

\* Bound of a PEM text.
MaxPemItems == 2

Bundles == SeqsUpTo(PemItems, MaxPemItems)

\* CertPool.AppendCertsFromPEM on a new pool: the certificates added, and
\* whether any was. Blocks that are no certificate, and certificates that do not
\* parse, are passed over.
RECURSIVE AppendCertsFromPEM(_)
AppendCertsFromPEM(pemCerts) ==
    IF pemCerts = <<>> THEN [certs |-> {}, ok |-> FALSE]
    ELSE LET rest == AppendCertsFromPEM(Tail(pemCerts))
         IN  IF Head(pemCerts) \in ParseableCerts
             THEN [certs |-> {Head(pemCerts)} \cup rest.certs, ok |-> TRUE]
             ELSE rest

\* A mutant of parseTrustBundlePEM: the result of AppendCertsFromPEM is not
\* looked at.
parseTrustBundlePEMUnchecked(trustBundlePem) ==
    IF trustBundlePem # <<>>
    THEN [pool |-> Ptr(AppendCertsFromPEM(trustBundlePem).certs), err |-> NoError]
    ELSE [pool |-> Nil, err |-> "trust bundle PEM data is empty"]

\* parseTrustBundlePEM: the returned pool (nil or a pool) and error.
parseTrustBundlePEM(trustBundlePem) ==
    IF trustBundlePem # <<>>
    THEN LET r == AppendCertsFromPEM(trustBundlePem)
         IN  IF ~r.ok
             THEN [pool |-> Nil, err |-> "failed to parse PEM trust bundle"]
             ELSE [pool |-> Ptr(r.certs), err |-> NoError]
    ELSE [pool |-> Nil, err |-> "trust bundle PEM data is empty"]

\* &tls.Config{}
EmptyTLSConfig ==
    [RootCAs |-> Nil, Renegotiation |-> "RenegotiateNever", NextProtos |-> <<>>]

\* The configuration net/http installs in the default transport when it first
\* enables HTTP/2 on it.
H2TLSConfig ==
    [RootCAs |-> Nil, Renegotiation |-> "RenegotiateNever",
     NextProtos |-> <<"h2", "http/1.1">>]

\* getHTTPClient(trustBundlePem) with the default transport's TLSClientConfig
\* being dflt (nil or the shared configuration): the returned client and error,
\* whether the call ended in a nil-pointer panic, and the default afterwards.
\* A client's TLSClientConfig is either the default's own object (sharesDefault)
\* or an object of its own (ownTLS).
getHTTPClient(trustBundlePem, dflt) ==
    LET parsed == parseTrustBundlePEM(trustBundlePem)
        \* tlsConfig after line 295: the default's object, or a new one
        owned == trustBundlePem # <<>>
        fresh == [(IF dflt = Nil THEN EmptyTLSConfig ELSE dflt[1])
                     EXCEPT !.RootCAs = parsed.pool]
    IN  IF trustBundlePem # <<>> /\ parsed.err # NoError
        THEN [client |-> Nil, err |-> parsed.err, panicked |-> FALSE, dflt |-> dflt]
        ELSE IF owned
        THEN [client |-> Ptr([sharesDefault |-> FALSE,
                              ownTLS |-> Ptr([fresh EXCEPT !.Renegotiation =
                                                  "RenegotiateFreelyAsClient"])]),
              err |-> NoError, panicked |-> FALSE, dflt |-> dflt]
        ELSE IF dflt = Nil
        THEN \* tlsConfig is nil: the assignment of line 297 dereferences it
             [client |-> Nil, err |-> NoError, panicked |-> TRUE, dflt |-> dflt]
        ELSE [client |-> Ptr([sharesDefault |-> TRUE, ownTLS |-> Nil]),
              err |-> NoError, panicked |-> FALSE,
              dflt |-> Ptr([dflt[1] EXCEPT !.Renegotiation =
                               "RenegotiateFreelyAsClient"])]

\* Bound on the number of calls of getHTTPClient.
MaxHTTPCalls == 2

InitHTTP ==
    /\ defaultTLS \in {Nil, Ptr(H2TLSConfig)}
    /\ defaultAtStart = defaultTLS
    /\ parseArg = <<>>
    /\ parseRet = NotCalled
    /\ httpArg = <<>>
    /\ httpRet = NotCalled
    /\ clients = {}
    /\ httpCalls = 0
    /\ actualAltNames = <<>> /\ expectedCNNames = <<>> /\ expectedAltNames = <<>>
    /\ dnsRet = NotCalled
    /\ ipArgX = <<>> /\ ipArgY = <<>> /\ ipX = <<>> /\ ipY = <<>> /\ ipRet = NotCalled
    /\ secrets = <<>> /\ call = <<>> /\ nRequests = 0
    /\ lastPut = <<>>
    /\ roles = <<>> /\ nRoleWrites = 0

\* The process has died of a panic.
Crashed == httpRet # NotCalled /\ httpRet[1].panicked

\* A call of parseTrustBundlePEM from outside getHTTPClient. The function reads
\* and writes no state, so the calls made before the first client is built stand
\* for all of them.
CallParseTrustBundlePEM(pem) ==
    /\ ~Crashed
    /\ httpCalls = 0
    /\ parseArg' = pem
    /\ parseRet' = Returned(parseTrustBundlePEM(pem))
    /\ UNCHANGED <<defaultTLS, defaultAtStart, httpArg, httpRet, clients, httpCalls>>
    /\ UNCHANGED <<dnsVars, ipVars, tokVars>>

\* A call of getHTTPClient; it calls parseTrustBundlePEM when the bundle is not
\* empty.
CallGetHTTPClient(pem) ==
    /\ ~Crashed
    /\ httpCalls < MaxHTTPCalls
    /\ LET r == getHTTPClient(pem, defaultTLS)
       IN  /\ httpArg' = pem
           /\ httpRet' = Returned([client |-> r.client, err |-> r.err,
                                   panicked |-> r.panicked])
           /\ defaultTLS' = r.dflt
           /\ clients' = IF r.client = Nil THEN clients
                         ELSE clients \cup {r.client[1]}
    /\ IF pem # <<>>
       THEN /\ parseArg' = pem
            /\ parseRet' = Returned(parseTrustBundlePEM(pem))
       ELSE UNCHANGED <<parseArg, parseRet>>
    /\ httpCalls' = httpCalls + 1
    /\ UNCHANGED defaultAtStart
    /\ UNCHANGED <<dnsVars, ipVars, tokVars>>

NextHTTP ==
    \/ \E pem \in Bundles : CallParseTrustBundlePEM(pem)
    \/ \E pem \in Bundles : CallGetHTTPClient(pem)

SpecHTTP == InitHTTP /\ [][NextHTTP]_vars

(***************************************************************************)
(* Token refresh: updateAccessToken and storeAccessData, and the issuance  *)
(* or signing request that calls them                                      *)
(*                                                                         *)
(* Token values are integers standing for opaque strings; 0 is the empty   *)
(* string. The response to the n-th call carries the access token 2n-1 and *)
(* the refresh token 2n (or the empty string in place of either); the      *)
(* tokens a secret holds at the start are negative.                        *)
(***************************************************************************)

EmptyToken == 0

FreshAccess(n) == 2 * n - 1
FreshRefresh(n) == 2 * n

SecretNames == {"s1", "s2"}

\* The credential store at the start.
InitialEntry(s) ==
    IF s = "s1"
    THEN [AccessToken |-> -1, RefreshToken |-> -2, URL |-> "https://tpp1.example.com/"]
    ELSE [AccessToken |-> -3, RefreshToken |-> -4, URL |-> "https://tpp2.example.com/"]

\* The role store at the start: roleA is stored, with the name of the secret it
\* refers to; no role named roleB is stored yet.
RoleStore ==
    [roleA |-> Ptr([VenafiSecret |-> "s1"]),
     roleB |-> Nil]

RoleNames == DOMAIN RoleStore

\* The values of venafi_secret a role may be written with ("": none).
RoleSecrets == SecretNames \cup {""}

\* Bound on the number of writes of a role that are made apart from a request.
MaxRoleWrites == 1

\* The vcert.Config values the calls are made with: no trust bundle, one with
\* a certificate or one without, and a base URL that tpp.NewConnector accepts
\* or not.
Configs ==
    [ConnectionTrust : {<<>>, <<"CERT_A">>, <<"TEXT">>},
     BaseUrl : {"https://tpp.example.com/", ":malformed"}]

\* tpp.NewConnector fails on a URL it cannot normalise.
NewConnectorFails(url) == url = ":malformed"

\* getTppConnector: the connector (nil on error) and the error.
getTppConnector(cfg) ==
    IF cfg.ConnectionTrust # <<>> /\ ~AppendCertsFromPEM(cfg.ConnectionTrust).ok
    THEN [conn |-> Nil, err |-> "failed to parse PEM trust bundle"]
    ELSE IF NewConnectorFails(cfg.BaseUrl)
    THEN [conn |-> Nil, err |-> "could not create TPP connector"]
    ELSE [conn |-> Ptr([baseURL |-> cfg.BaseUrl]), err |-> NoError]

\* The two slots in which calls run concurrently.
Slots == {"r1", "r2"}

\* Bound on the number of calls of updateAccessToken.
MaxCalls == 2

\* Bound on the number of issuance or signing requests.
MaxRequests == 2

\* The value of ret while updateAccessToken has not returned.
Pending == "pending"

\* The locals of a call of updateAccessToken and of the request that makes it:
\* where it is (pc), its serial number (id), the role, the error of
\* getTppConnector that line 210 drops (connErr), the response and error of
\* RefreshAccessToken, the role entry (a pointer) and the credential entry read
\* by storeAccessData, what
\* updateAccessToken returned (ret), whether it wrote the store, the number of
\* calls of the connector's refresh and enroll/sign operations, what the last
\* enroll/sign returned, and the result of the request.
IdleCall ==
    [pc |-> "idle", id |-> 0, roleName |-> "", connErr |-> NoError,
     resp |-> [Access_token |-> EmptyToken, Refresh_token |-> EmptyToken],
     err |-> NoError, entry |-> Nil,
     venafiEntry |-> [AccessToken |-> EmptyToken, RefreshToken |-> EmptyToken,
                      URL |-> ""],
     ret |-> Pending, wrote |-> FALSE, refreshCalls |-> 0,
     enrollCalls |-> 0, lastEnroll |-> "", result |-> ""]

\* The slots in which no call or request is running, and the one a new call or
\* request takes (the slots are interchangeable). A call of updateAccessToken
\* that was made by a request (it has enrolled) and has returned leaves its
\* request running.
FreeSlots ==
    {q \in Slots :
        \/ call[q].pc \in {"idle", "done"}
        \/ call[q].pc = "returned" /\ call[q].enrollCalls = 0}
NextSlot == CHOOSE q \in FreeSlots : TRUE

\* A nil-pointer dereference has brought the plugin process down.
Panicked == \E r \in Slots : call[r].ret = "panic"

\* updateAccessToken returns ret; the locals of storeAccessData are gone.
Return(c, ret) ==
    [c EXCEPT !.ret = ret, !.pc = "returned", !.venafiEntry = IdleCall.venafiEntry]

\* updateAccessToken panics.
Panic(c) == [c EXCEPT !.ret = "panic", !.pc = "returned"]

\* Line 224: both tokens of the response are non-empty.
TokensPresent(resp) ==
    resp.Access_token # EmptyToken /\ resp.Refresh_token # EmptyToken

\* A mutant of AfterRefresh: a response without tokens is retried once, silently.
AfterRefreshRetrying(resp, err, refreshCalls) ==
    IF TokensPresent(resp) THEN [next |-> "store", ret |-> Pending]
    ELSE IF refreshCalls < 2 THEN [next |-> "refresh", ret |-> Pending]
    ELSE [next |-> "return", ret |-> err]

\* Lines 224-233, after RefreshAccessToken has returned (resp, err) for the
\* refreshCalls-th time: store the tokens, or return err.
AfterRefresh(resp, err, refreshCalls) ==
    IF TokensPresent(resp) THEN [next |-> "store", ret |-> Pending]
    ELSE [next |-> "return", ret |-> err]

\* A mutant of SetTokens: the refresh token is left as it was read.
SetAccessTokenOnly(venafiEntry, resp) ==
    [venafiEntry EXCEPT !.AccessToken = resp.Access_token]

\* Lines 253-254: both tokens of the entry read are replaced.
SetTokens(venafiEntry, resp) ==
    [venafiEntry EXCEPT !.AccessToken = resp.Access_token,
                        !.RefreshToken = resp.Refresh_token]

\* A mutant of StoragePut: an entry is written only while the stored tokens are
\* the ones the store started with.
StoragePutFirstWriter(store, name, entry) ==
    IF store[name].AccessToken = InitialEntry(name).AccessToken
    THEN [store EXCEPT ![name] = entry]
    ELSE store

\* A mutant of StoragePut: the entry is written at CredentialsRootPath without
\* the name of the secret, so that all secrets are one record.
StoragePutRootPath(store, name, entry) == [s \in DOMAIN store |-> entry]

\* req.Storage.Put: the entry at the path is overwritten.
StoragePut(store, name, entry) == [store EXCEPT ![name] = entry]

\* updateAccessToken, lines 210-217, for the call with locals c: the connector
\* is built (its error is dropped), the HTTP client is built, and the client is
\* set on the connector. The locals afterwards.
Begin(c, cfg, dflt) ==
    LET tpp == getTppConnector(cfg)
        h == getHTTPClient(cfg.ConnectionTrust, dflt)
        c1 == [c EXCEPT !.connErr = tpp.err]
    IN  IF h.panicked THEN Panic(c1)
        ELSE IF h.err # NoError THEN Return(c1, h.err)
        ELSE IF tpp.conn = Nil THEN Panic(c1)
        ELSE [c1 EXCEPT !.pc = "refresh"]

Init ==
    /\ secrets = [s \in SecretNames |-> InitialEntry(s)]
    /\ call = [r \in Slots |-> IdleCall]
    /\ nRequests = 0
    /\ lastPut = [s \in SecretNames |-> 0]
    /\ roles = RoleStore
    /\ nRoleWrites = 0
    /\ defaultTLS \in {Nil, Ptr(H2TLSConfig)}
    /\ defaultAtStart = defaultTLS
    /\ parseArg = <<>> /\ parseRet = <<>> /\ httpArg = <<>> /\ httpRet = <<>>
    /\ clients = {} /\ httpCalls = 0
    /\ actualAltNames = <<>> /\ expectedCNNames = <<>> /\ expectedAltNames = <<>>
    /\ dnsRet = NotCalled
    /\ ipArgX = <<>> /\ ipArgY = <<>> /\ ipX = <<>> /\ ipY = <<>> /\ ipRet = NotCalled

\* What no step of a call changes.
Frame ==
    /\ UNCHANGED <<dnsVars, ipVars, roles, nRoleWrites>>
    /\ UNCHANGED <<defaultAtStart, parseArg, parseRet, httpArg, httpRet, clients,
                   httpCalls>>

\* updateAccessToken(cfg, ..., roleName) is called and runs up to the call of
\* RefreshAccessToken.
CallUpdateAccessToken(r, roleName, cfg) ==
    /\ ~Panicked
    /\ FreeSlots # {} /\ r = NextSlot
    /\ nRequests < MaxCalls
    /\ nRequests' = nRequests + 1
    /\ call' = [call EXCEPT ![r] =
                   Begin([IdleCall EXCEPT !.id = nRequests + 1,
                                          !.roleName = roleName],
                         cfg, defaultTLS)]
    /\ defaultTLS' = getHTTPClient(cfg.ConnectionTrust, defaultTLS).dflt
    /\ UNCHANGED <<secrets, lastPut>>
    /\ Frame

\* RefreshAccessToken returns (resp, err), lines 219-224 and 231-233: the
\* response carries a new access token or none, a new refresh token or none,
\* and comes with an error or not. With both tokens present storeAccessData is
\* called, and otherwise err is returned.
RefreshAccessToken(r, hasAccess, hasRefresh, err) ==
    /\ ~Panicked
    /\ call[r].pc = "refresh"
    /\ LET resp == [Access_token |-> IF hasAccess THEN FreshAccess(call[r].id)
                                     ELSE EmptyToken,
                    Refresh_token |-> IF hasRefresh THEN FreshRefresh(call[r].id)
                                      ELSE EmptyToken]
           n == call[r].refreshCalls + 1
           after == AfterRefresh(resp, err, n)
           c == [call[r] EXCEPT !.resp = resp, !.err = err, !.refreshCalls = n]
       IN  call' = [call EXCEPT ![r] =
                       IF after.next = "refresh" THEN c
                       ELSE IF after.next = "return" THEN Return(c, after.ret)
                       ELSE [c EXCEPT !.pc = "getRole"]]
    /\ UNCHANGED <<secrets, nRequests, lastPut, defaultTLS>>
    /\ Frame

\* storeAccessData, lines 238-246: b.getRole reads the role from the storage as
\* it is now. The read may fail; a role that is not stored is read as a nil
\* entry with a nil error, and line 244 then dereferences the nil entry; a
\* role that refers to no secret is an error.
StoreGetRole(r, failed) ==
    /\ ~Panicked
    /\ call[r].pc = "getRole"
    /\ LET entry == roles[call[r].roleName]
           c == [call[r] EXCEPT !.entry = entry]
       IN  call' = [call EXCEPT ![r] =
                       IF failed THEN Return(call[r], "getRole failed")
                       ELSE IF entry = Nil THEN Panic(c)
                       ELSE IF entry[1].VenafiSecret = ""
                       THEN Return(c, "role does not have any Venafi secret associated")
                       ELSE [c EXCEPT !.pc = "getVenafiSecret"]]
    /\ UNCHANGED <<secrets, nRequests, lastPut, defaultTLS>>
    /\ Frame

\* storeAccessData, lines 248-254: the credential entry is read (the read may
\* fail) and the tokens of the response are set in the copy read.
StoreGetVenafiSecret(r, failed) ==
    /\ ~Panicked
    /\ call[r].pc = "getVenafiSecret"
    /\ call' = [call EXCEPT ![r] =
                   IF failed THEN Return(call[r], "getVenafiSecret failed")
                   ELSE [call[r] EXCEPT
                            !.venafiEntry =
                                SetTokens(secrets[call[r].entry[1].VenafiSecret],
                                          call[r].resp),
                            !.pc = "put"]]
    /\ UNCHANGED <<secrets, nRequests, lastPut, defaultTLS>>
    /\ Frame

\* storeAccessData, lines 257-264, and updateAccessToken, lines 227-234: the
\* entry is serialised and written; either may fail, and then nothing is
\* written and the error is returned.
StorePut(r, outcome) ==
    /\ ~Panicked
    /\ call[r].pc = "put"
    /\ LET name == call[r].entry[1].VenafiSecret
       IN  IF outcome = NoError
           THEN /\ secrets' = StoragePut(secrets, name, call[r].venafiEntry)
                /\ lastPut' = [lastPut EXCEPT ![name] = call[r].id]
                /\ call' = [call EXCEPT ![r] =
                               Return([call[r] EXCEPT !.wrote = TRUE], NoError)]
           ELSE /\ UNCHANGED <<secrets, lastPut>>
                /\ call' = [call EXCEPT ![r] = Return(call[r], outcome)]
    /\ UNCHANGED <<nRequests, defaultTLS>>
    /\ Frame

\* The role entry stored after a write of roleName with a venafi_secret; a
\* write that fails stores nothing.
RolesAfterWrite(store, roleName, secret, failed) ==
    IF failed THEN store
    ELSE [store EXCEPT ![roleName] = Ptr([VenafiSecret |-> secret])]

\* The role roleName is written at "roles/<roleName>" with a venafi_secret; the
\* write may fail.
WriteRole(roleName, secret, failed) ==
    /\ ~Panicked
    /\ nRoleWrites < MaxRoleWrites
    /\ nRoleWrites' = nRoleWrites + 1
    /\ roles' = RolesAfterWrite(roles, roleName, secret, failed)
    /\ UNCHANGED <<secrets, call, nRequests, lastPut>>
    /\ UNCHANGED <<dnsVars, ipVars, httpVars>>

RefreshErrors == {NoError, "refresh failed"}

PutOutcomes == {NoError, "StorageEntryJSON failed", "Put failed"}

Next ==
    \/ \E roleName \in RoleNames, secret \in RoleSecrets :
            WriteRole(roleName, secret, FALSE)
    \/ \E roleName \in RoleNames : WriteRole(roleName, "", TRUE)
    \/ \E r \in Slots, roleName \in RoleNames, cfg \in Configs :
            CallUpdateAccessToken(r, roleName, cfg)
    \/ \E r \in Slots, hasAccess \in BOOLEAN, hasRefresh \in BOOLEAN,
          err \in RefreshErrors :
            RefreshAccessToken(r, hasAccess, hasRefresh, err)
    \/ \E r \in Slots, failed \in BOOLEAN : StoreGetRole(r, failed)
    \/ \E r \in Slots, failed \in BOOLEAN : StoreGetVenafiSecret(r, failed)
    \/ \E r \in Slots, outcome \in PutOutcomes : StorePut(r, outcome)

Spec == Init /\ [][Next]_vars

(***************************************************************************)
(* An issuance or signing request: it enrols, and when the connector       *)
(* signals that the authentication has expired it calls updateAccessToken  *)
(* and enrols once more.                                                   *)
(***************************************************************************)

EnrollOutcomes == {"ok", "authExpired", "error"}

\* testEnv.IssueCertificate and testEnv.SignCertificate begin: the role is
\* written at "roles/<roleName>" with its venafi_secret. When the write fails
\* the test ends there and no request is sent; otherwise the request for the
\* role is the next to be sent.
StartRequest(r, roleName, secret, failed) ==
    /\ ~Panicked
    /\ FreeSlots # {} /\ r = NextSlot
    /\ nRequests < MaxRequests
    /\ nRequests' = nRequests + 1
    /\ nRoleWrites' = nRoleWrites + 1
    /\ roles' = RolesAfterWrite(roles, roleName, secret, failed)
    /\ call' = [call EXCEPT ![r] =
                   [IdleCall EXCEPT !.pc = IF failed THEN "done" ELSE "enroll",
                                    !.id = nRequests + 1,
                                    !.roleName = roleName,
                                    !.result = IF failed THEN "failed to create role"
                                               ELSE ""]]
    /\ UNCHANGED <<secrets, lastPut, defaultTLS>>
    /\ UNCHANGED <<dnsVars, ipVars>>
    /\ UNCHANGED <<defaultAtStart, parseArg, parseRet, httpArg, httpRet, clients,
                   httpCalls>>

\* What the request does with what enroll (or sign) returned, the first time:
\* it is done, or it goes on to refresh the token.
AfterEnroll(c, outcome) ==
    [c EXCEPT !.enrollCalls = @ + 1,
              !.lastEnroll = outcome,
              !.pc = IF outcome = "authExpired" THEN "update" ELSE "done",
              !.result = IF outcome = "ok" THEN "certificate"
                         ELSE IF outcome = "authExpired" THEN ""
                         ELSE "IssuanceFailed"]

\* The request "issue/<roleName>" (or "sign/<roleName>") is sent, and the
\* connector's enroll (or sign) operation returns: a certificate, an
\* authentication-expired signal, or another error.
Enroll(r, outcome) ==
    /\ ~Panicked
    /\ call[r].pc = "enroll"
    /\ call' = [call EXCEPT ![r] = AfterEnroll(call[r], outcome)]
    /\ UNCHANGED <<secrets, nRequests, lastPut, defaultTLS>>
    /\ Frame

\* The request calls updateAccessToken with the configuration of its role.
RequestUpdate(r, cfg) ==
    /\ ~Panicked
    /\ call[r].pc = "update"
    /\ call' = [call EXCEPT ![r] = Begin(call[r], cfg, defaultTLS)]
    /\ defaultTLS' = getHTTPClient(cfg.ConnectionTrust, defaultTLS).dflt
    /\ UNCHANGED <<secrets, nRequests, lastPut>>
    /\ Frame

\* updateAccessToken has returned, and its locals are gone: after a refresh that
\* succeeded the request enrols again, after one that failed it ends with the
\* error.
AfterUpdate(r) ==
    /\ ~Panicked
    /\ call[r].pc = "returned"
    /\ call' = [call EXCEPT ![r] =
                   [IdleCall EXCEPT
                       !.id = call[r].id,
                       !.roleName = call[r].roleName,
                       !.ret = call[r].ret,
                       !.refreshCalls = call[r].refreshCalls,
                       !.enrollCalls = call[r].enrollCalls,
                       !.lastEnroll = call[r].lastEnroll,
                       !.pc = IF call[r].ret = NoError THEN "retry" ELSE "done",
                       !.result = IF call[r].ret = NoError THEN ""
                                  ELSE "IssuanceFailed"]]
    /\ UNCHANGED <<secrets, nRequests, lastPut, defaultTLS>>
    /\ Frame

\* The second enroll returns; whatever it returns ends the request.
EnrollRetry(r, outcome) ==
    /\ ~Panicked
    /\ call[r].pc = "retry"
    /\ call' = [call EXCEPT ![r].enrollCalls = @ + 1,
                            ![r].lastEnroll = outcome,
                            ![r].pc = "done",
                            ![r].result = IF outcome = "ok" THEN "certificate"
                                          ELSE "IssuanceFailed"]
    /\ UNCHANGED <<secrets, nRequests, lastPut, defaultTLS>>
    /\ Frame

NextReq ==
    \/ \E r \in Slots, roleName \in RoleNames, secret \in RoleSecrets :
            StartRequest(r, roleName, secret, FALSE)
    \/ \E r \in Slots, roleName \in RoleNames : StartRequest(r, roleName, "", TRUE)
    \/ \E r \in Slots, outcome \in EnrollOutcomes : Enroll(r, outcome)
    \/ \E r \in Slots, cfg \in Configs : RequestUpdate(r, cfg)
    \/ \E r \in Slots, hasAccess \in BOOLEAN, hasRefresh \in BOOLEAN,
          err \in RefreshErrors :
            RefreshAccessToken(r, hasAccess, hasRefresh, err)
    \/ \E r \in Slots, failed \in BOOLEAN : StoreGetRole(r, failed)
    \/ \E r \in Slots, failed \in BOOLEAN : StoreGetVenafiSecret(r, failed)
    \/ \E r \in Slots, outcome \in PutOutcomes : StorePut(r, outcome)
    \/ \E r \in Slots : AfterUpdate(r)
    \/ \E r \in Slots, outcome \in EnrollOutcomes : EnrollRetry(r, outcome)

SpecReq == Init /\ [][NextReq]_vars

(***************************************************************************)
(* Claims                                                                  *)
(***************************************************************************)

\* C6: areDNSNamesCorrect accepts exactly when the certificate's DNS names, as a
\* set, equal the union of the requested common names and alternative names.
C6_AcceptsIffSetEqual ==
    dnsRet # NotCalled =>
        (dnsRet[1] <=> (Range(actualAltNames) =
                        Range(expectedCNNames) \cup Range(expectedAltNames)))

\* The number of elements of the slice that are the address a (in 16-byte form).
AddrCount(s, a) == Cardinality({i \in 1..Len(s) : To16(s[i]) = a})

\* The two slices hold the same addresses the same number of times, in any order
\* and in any representation.
SameAddresses(x, y) ==
    /\ Len(x) = Len(y)
    /\ \A a \in {To16(ip) : ip \in Range(x) \cup Range(y)} :
           AddrCount(x, a) = AddrCount(y, a)

\* C7: SameIpSlice returns true exactly when the two slices hold the same
\* addresses as unordered collections, whatever the order and the in-memory
\* representation of the addresses, and it leaves both inputs as they were.
C7_SameIpSliceUnordered ==
    ipRet # NotCalled =>
        /\ ipRet[1] <=> SameAddresses(ipArgX, ipArgY)
        /\ ipX = ipArgX
        /\ ipY = ipArgY

\* C7 witness: SameIpSlice has accepted two slices of two addresses each that
\* differ in order and in the representation of an address.
C7_Witness ==
    /\ ipRet = Returned(TRUE)
    /\ Len(ipArgX) = 2
    /\ ipArgX[1] # ipArgY[1]
    /\ \E i, j \in 1..2 : /\ ipArgX[i] # ipArgY[j]
                          /\ To16(ipArgX[i]) = To16(ipArgY[j])

\* The PEM text holds no certificate that parses (the empty text holds none).
NoParseableCert(pem) == \A i \in 1..Len(pem) : pem[i] \notin ParseableCerts

\* C8: parseTrustBundlePEM returns an error and no pool when its input is empty
\* or holds no parseable certificate, and a pool and no error otherwise, never
\* both; getHTTPClient given a non-empty bundle with no parseable certificate
\* returns that error and no client.
C8_TrustBundleErrorOrPool ==
    /\ parseRet # NotCalled =>
          LET r == parseRet[1]
          IN  /\ NoParseableCert(parseArg) => (r.err # NoError /\ r.pool = Nil)
              /\ ~NoParseableCert(parseArg) => (r.err = NoError /\ r.pool # Nil)
              /\ ~(r.pool # Nil /\ r.err # NoError)
    /\ (httpRet # NotCalled /\ httpArg # <<>> /\ NoParseableCert(httpArg)) =>
          /\ httpRet[1].client = Nil
          /\ ~httpRet[1].panicked
          /\ httpRet[1].err = "failed to parse PEM trust bundle"

\* C8 witness: the loader has refused a non-empty text without a certificate,
\* and getHTTPClient has been given one.
C8_Witness ==
    /\ parseRet # NotCalled
    /\ parseArg # <<>>
    /\ NoParseableCert(parseArg)
    /\ parseRet[1].err # NoError
    /\ httpRet # NotCalled
    /\ httpArg # <<>>
    /\ NoParseableCert(httpArg)

\* C9: whatever bundle getHTTPClient is given and however often it is called,
\* the default transport's TLS configuration stays as it was, no returned client
\* uses the default's configuration object as its own, and no call faults.
C9_DefaultTLSUntouched ==
    /\ defaultTLS = defaultAtStart
    /\ \A c \in clients : ~c.sharesDefault
    /\ httpRet # NotCalled => ~httpRet[1].panicked

\* The secret named by the role entry that a call has read ("" when it has read
\* none).
SecretOf(c) == IF c.entry = Nil THEN "" ELSE c.entry[1].VenafiSecret

\* C1: when the response of RefreshAccessToken lacks the access token or the
\* refresh token, with or without an error, updateAccessToken returns an error
\* and has not written the store, which is as it was when no other call ran.
C1_EmptyTokensReportFailure ==
    \A r \in Slots :
        (call[r].refreshCalls > 0 /\ ~TokensPresent(call[r].resp)) =>
            /\ call[r].pc = "returned"
            /\ call[r].ret # NoError
            /\ ~call[r].wrote
            /\ nRequests = 1 => \A s \in SecretNames : secrets[s] = InitialEntry(s)

\* The entry holds the two tokens of the response to one call.
FromOneResponse(e) ==
    \E n \in 1..nRequests :
        e.AccessToken = FreshAccess(n) /\ e.RefreshToken = FreshRefresh(n)

\* C2: the stored pair of tokens is the initial pair or the pair of one single
\* response, never an access token of one response with a refresh token of
\* another response or of the previous pair.
C2_StoredPairFromOneResponse ==
    \A s \in SecretNames :
        \/ /\ secrets[s].AccessToken = InitialEntry(s).AccessToken
           /\ secrets[s].RefreshToken = InitialEntry(s).RefreshToken
        \/ FromOneResponse(secrets[s])

\* C2 witness: one call has written the secret, and a later call for the same
\* secret has returned after a response with an access token and no refresh
\* token.
C2_Witness ==
    \E r, q \in Slots :
        /\ call[r].wrote
        /\ lastPut[SecretOf(call[r])] = call[r].id
        /\ call[q].pc = "returned"
        /\ call[q].id > call[r].id
        /\ call[q].roleName = call[r].roleName
        /\ call[q].resp.Access_token # EmptyToken
        /\ call[q].resp.Refresh_token = EmptyToken

\* C3: when the response carries both tokens and storing them fails,
\* updateAccessToken returns an error; it returns success only if it has written
\* the new pair.
C3_SuccessOnlyIfPersisted ==
    \A r \in Slots :
        call[r].pc = "returned" =>
            /\ (TokensPresent(call[r].resp) /\ ~call[r].wrote) =>
                   call[r].ret \notin {NoError, "panic"}
            /\ call[r].ret = NoError => call[r].wrote

\* C4: when RefreshAccessToken returns an error, updateAccessToken returns that
\* error, writes nothing to the store and has called RefreshAccessToken once.
C4_RefreshErrorIsReturned ==
    \A r \in Slots :
        (call[r].refreshCalls > 0 /\ call[r].err # NoError) =>
            /\ call[r].pc = "returned" => call[r].ret = call[r].err
            /\ ~call[r].wrote
            /\ call[r].refreshCalls <= 1

C10_LastWriterWins ==
    \A r, q \in Slots :
        (/\ r # q
         /\ call[r].pc = "returned" /\ call[q].pc = "returned"
         /\ call[r].wrote /\ call[q].wrote
         /\ SecretOf(call[r]) = SecretOf(call[q])
         /\ lastPut[SecretOf(call[r])] = call[r].id)
        => /\ secrets[SecretOf(call[r])].AccessToken = call[r].resp.Access_token
           /\ secrets[SecretOf(call[r])].RefreshToken = call[r].resp.Refresh_token
           /\ call[r].ret = NoError
           /\ call[q].ret = NoError

\* C10 witness: two calls for the same role ran at the same time and both have
\* written: the call that started first wrote last, and its pair is stored.
C10_Witness ==
    \E r, q \in Slots :
        /\ call[r].pc = "returned" /\ call[q].pc = "returned"
        /\ call[r].wrote /\ call[q].wrote
        /\ call[r].roleName = call[q].roleName
        /\ call[r].id < call[q].id
        /\ lastPut[SecretOf(call[r])] = call[r].id
        /\ secrets[SecretOf(call[r])].AccessToken = FreshAccess(call[r].id)

\* The call in slot q is a call for a role, and the role entry it has read
\* refers to a secret.
UsesCredential(q) ==
    /\ call[q].roleName \in RoleNames
    /\ SecretOf(call[q]) \in SecretNames

\* The step is a step of the call in slot r, and it leaves alone the record
\* that the call in slot q uses: it does not change it, and the entry it reads
\* is not that record.
LeavesAlone(r, q) ==
    call'[r] # call[r] =>
        /\ secrets'[SecretOf(call[q])] = secrets[SecretOf(call[q])]
        /\ (call[r].pc = "getVenafiSecret" /\ call'[r].pc = "put") =>
               call'[r].venafiEntry.URL # secrets[SecretOf(call[q])].URL

C12_ConnectorErrorIsReturned ==
    \A r \in Slots :
        call[r].connErr # NoError =>
            /\ call[r].pc = "returned"
            /\ call[r].ret \notin {Pending, NoError, "panic"}
            /\ call[r].refreshCalls = 0
            /\ ~call[r].wrote

====
